---- MODULE Spec2Model ----
(***************************************************************************)
(* A state-machine model of FITS_tools/match_images.py: the two public    *)
(* functions project_to_header and match_fits, stepped statement by       *)
(* statement, with the external collaborators (the montage and hcongrid   *)
(* backends, pyfits, the file system) as nondeterministic environment.    *)
(***************************************************************************)
EXTENDS Integers, Sequences, FiniteSets, TLC

VARIABLES
    env,               \* which backends can be imported: montageOK, hcongridOK
    fs,                \* the FITS files on disk: name -> header and data
    top,               \* the public function the caller invoked
    margs,             \* match_fits: its arguments
    mpc,               \* match_fits: position in the body
    header,            \* match_fits: the local `header` (working header)
    image1,            \* match_fits: the local `image1`
    image2_projected,  \* match_fits: the local `image2_projected`
    corr,              \* match_fits: the locals (corr_image1, corr_image2)
    pargs,             \* project_to_header: its bound arguments
    ppc,               \* project_to_header: position in the body
    image,             \* project_to_header: the local `image`
    branch,            \* project_to_header: the branch of the if/elif taken
    temps,             \* NamedTemporaryFile objects that are open
    pcalls,            \* log: project_to_header invocations, in order
    bcalls,            \* log: backend invocations, in order
    events,            \* log: the steps of match_fits, in order
    result             \* how the public call ended: a return or a raise

vars == << env, fs, top, margs, mpc, header, image1, image2_projected, corr,
           pargs,
           ppc, image, branch, temps, pcalls, bcalls, events, result >>

(***************************************************************************)
(* Bounds of the model.                                                    *)
(***************************************************************************)
\* pixel values of the sigma-cut inputs range over -1..MaxPix and NaN
MaxPix == 2
\* sigma_cut levels of the sigma-cut inputs range over -MaxLevel..MaxLevel
MaxLevel == 2
\* sigma_cut of a whole match_fits call ranges over 0..MaxFlowLevel
MaxFlowLevel == 1

(***************************************************************************)
(* Python values.                                                          *)
(***************************************************************************)
\* None / an unbound local is the empty tuple, a value x is <<x>>.
None == << >>
Some(x) == << x >>
IsNone(o) == o = << >>
Get(o) == o[1]

\* A pixel is a float: NaN, or a number.
NaN == [nan |-> TRUE, v |-> 0]
Num(n) == [nan |-> FALSE, v |-> n]
IsNaN(p) == p.nan

RECURSIVE NPix(_)
\* the number of elements of an array of the given shape
NPix(shape) == IF shape = << >> THEN 1 ELSE Head(shape) * NPix(Tail(shape))

\* every array of the given shape with elements from the given set
ImagesOf(shape, pixels) ==
    { [shape |-> shape, pix |-> p] : p \in [1..NPix(shape) -> pixels] }

\* ndarray.squeeze(): the axes of length one are removed, the elements kept
Squeeze(a) ==
    [shape |-> SelectSeq(a.shape, LAMBDA d : d # 1), pix |-> a.pix]

(***************************************************************************)
(* Headers.  A header is the set of keywords it carries.                   *)
(***************************************************************************)
Keywords == {"CTYPE", "LEGACY"}
\* the keywords flatten_header drops
NonStandard == {"LEGACY"}
\* headers with a valid coordinate system
Headers == { h \in SUBSET Keywords : "CTYPE" \in h }

\* strip_headers.flatten_header: a copy without the non-standard keywords
flatten_header(h) == h \ NonStandard

(***************************************************************************)
(* The sigma cut of match_fits, lines 102-112, in exact arithmetic.        *)
(***************************************************************************)
RECURSIVE SumSeq(_)
SumSeq(s) == IF s = << >> THEN 0 ELSE Head(s) + SumSeq(Tail(s))

HasNaN(a) == \E i \in DOMAIN a.pix : IsNaN(a.pix[i])

\* n^3 times the variance of a NaN-free array: numpy's std() is the root of
\* the mean of the squared deviations from the mean, so with n elements of
\* sum S,  std^2 = Sum (x_i - S/n)^2 / n = Sum (n*x_i - S)^2 / n^3
Dev2(a) ==
    LET n == Len(a.pix)
        S == SumSeq([i \in DOMAIN a.pix |-> a.pix[i].v])
    IN  SumSeq([i \in DOMAIN a.pix |-> (n * a.pix[i].v - S) * (n * a.pix[i].v - S)])

\* Above with >= for >: a pixel equal to the threshold survives
AboveSloppy(x, a, level) ==
    IF HasNaN(a) THEN FALSE
    ELSE LET n   == Len(a.pix)
             lhs == n * n * n * x.v * x.v
             rhs == level * level * Dev2(a)
         IN  IF level >= 0
             THEN x.v > 0 /\ lhs >= rhs
             ELSE x.v > 0 \/ (x.v = 0 /\ rhs > 0) \/ (x.v < 0 /\ lhs <= rhs)

\* the comparison  x > a.std() * level  for one element x of a.  A NaN in a
\* makes std() NaN and every comparison False.  Otherwise, with n elements,
\* x > level * sqrt(Dev2/n^3) is decided on the squares, by the signs.
Above(x, a, level) ==
    IF HasNaN(a) THEN FALSE
    ELSE LET n   == Len(a.pix)
             lhs == n * n * n * x.v * x.v
             rhs == level * level * Dev2(a)
         IN  IF level >= 0
             THEN x.v > 0 /\ lhs > rhs
             ELSE x.v > 0 \/ (x.v = 0 /\ rhs > 0) \/ (x.v < 0 /\ lhs < rhs)

\* float * bool: x*True is x, x*False is 0, and NaN times anything is NaN
MulBool(x, b) == IF IsNaN(x) THEN NaN ELSE IF b THEN x ELSE Num(0)

\* image*(image > image.std()*sigma_cut): a new array, the operand untouched
Threshold(a, level) ==
    [shape |-> a.shape,
     pix   |-> [i \in DOMAIN a.pix |-> MulBool(a.pix[i], Above(a.pix[i], a, level))]]

\* OK = (corr_image1==corr_image1)*(corr_image2==corr_image2): x == x is
\* False exactly for NaN
OK(c1, c2) == { i \in DOMAIN c1.pix : ~IsNaN(c1.pix[i]) /\ ~IsNaN(c2.pix[i]) }

RECURSIVE SumOver(_, _)
SumOver(f, S) ==
    IF S = {} THEN 0
    ELSE LET i == CHOOSE j \in S : TRUE IN f[i] + SumOver(f, S \ {i})

RECURSIVE ProdOver(_, _)
ProdOver(f, S) ==
    IF S = {} THEN 1
    ELSE LET i == CHOOSE j \in S : TRUE IN f[i] * ProdOver(f, S \ {i})

\* OverlapSum with .prod() for .sum()
OverlapProd(c1, c2) ==
    ProdOver([i \in DOMAIN c1.pix |-> c1.pix[i].v * c2.pix[i].v], OK(c1, c2))

\* (corr_image1[OK]*corr_image2[OK]).sum()
OverlapSum(c1, c2) ==
    SumOver([i \in DOMAIN c1.pix |-> c1.pix[i].v * c2.pix[i].v], OK(c1, c2))

\* Degenerate with the fallback never taken
NeverDegenerate(c1, c2) == FALSE

\* the test of line 106
Degenerate(c1, c2) == OverlapSum(c1, c2) = 0

\* Truthy with the cut applied whatever sigma_cut is
AlwaysTruthy(level) == TRUE

\* `if sigma_cut:`: False, None, 0 and 0.0 are falsy; False is 0, True is 1
Truthy(level) == level # 0

\* lines 102-112: the pair (corr_image1, corr_image2)
SigmaCut(a1, a2, level) ==
    IF Truthy(level)
    THEN LET c1 == Threshold(a1, level)
             c2 == Threshold(a2, level)
         IN  IF Degenerate(c1, c2) THEN << a1, a2 >> ELSE << c1, c2 >>
    ELSE << a1, a2 >>

(***************************************************************************)
(* The environment: files, call arguments, backend outputs.                *)
(***************************************************************************)
FileNames == {"file1.fits", "file2.fits"}

\* element values of the arrays in files and of the backends' outputs
FlowPix == {Num(1), Num(3)}
\* shapes of the data units in files
RawShapes == {<<2>>, <<1, 2>>}
\* shapes of the arrays a backend hands back
OutShapes == {<<2>>, <<1, 2>>}
\* the arrays a backend can hand back
OutImages == UNION { ImagesOf(sh, FlowPix) : sh \in OutShapes }
\* what a file can hold
FileContents ==
    { [header |-> h, data |-> d] :
        h \in Headers, d \in UNION { ImagesOf(sh, {Num(1)}) : sh \in RawShapes } }

\* sigma_cut values of a match_fits call: False (0), True (1), and up
FlowLevels == 0..MaxFlowLevel

\* keyword arguments a caller passes on: each is absent (the callee's default
\* applies) or False
KwNames == {"use_montage", "quiet", "preserve_bad_pixels"}
KwargSets == UNION { [D -> {FALSE}] : D \in SUBSET KwNames }

\* the keyword arguments of kw other than those named in S
Without(kw, S) == [k \in DOMAIN kw \ S |-> kw[k]]

\* def project_to_header(fitsfile, header, use_montage=True, quiet=True,
\*                       **kwargs): the binding of a call's arguments
Bind(f, h, kw) ==
    [fitsfile    |-> f,
     header      |-> h,
     use_montage |-> IF "use_montage" \in DOMAIN kw THEN kw["use_montage"] ELSE TRUE,
     quiet       |-> IF "quiet" \in DOMAIN kw THEN kw["quiet"] ELSE TRUE,
     kwargs      |-> Without(kw, {"use_montage", "quiet"})]

NoPargs == Bind("file1.fits", {"CTYPE"}, << >>)
NoMargs ==
    [fitsfile1 |-> "file1.fits", fitsfile2 |-> "file2.fits", header |-> None,
     sigma_cut |-> 0, return_header |-> FALSE, kwargs |-> << >>]
NoResult == [kind |-> "none", exc |-> "", images |-> << >>, header |-> None]

Returned(imgs, h) == [kind |-> "return", exc |-> "", images |-> imgs, header |-> h]
Raised(e) == [kind |-> "raise", exc |-> e, images |-> << >>, header |-> None]

Init ==
    /\ env \in [montageOK : BOOLEAN, hcongridOK : BOOLEAN]
    /\ fs \in [FileNames -> FileContents]
    /\ top = "idle"
    /\ margs = NoMargs
    /\ mpc = "none"
    /\ header = None
    /\ image1 = None
    /\ image2_projected = None
    /\ corr = << >>
    /\ pargs = NoPargs
    /\ ppc = "none"
    /\ image = None
    /\ branch = "unset"
    /\ temps = {}
    /\ pcalls = << >>
    /\ bcalls = << >>
    /\ events = << >>
    /\ result = NoResult

matchLocals == << header, image1, image2_projected, corr >>
projLocals == << pargs, ppc, image, branch, temps >>

(***************************************************************************)
(* project_to_header, lines 10-63.                                         *)
(***************************************************************************)
\* a call of project_to_header(f, h, **kw): a fresh frame, at line 32
Enter(f, h, kw) ==
    /\ pargs' = Bind(f, h, kw)
    /\ ppc' = "select"
    /\ image' = None
    /\ branch' = "unset"
    /\ pcalls' = Append(pcalls, [fitsfile |-> f, header |-> h, kwargs |-> kw])
    /\ UNCHANGED << temps, bcalls >>

\* an exception leaves project_to_header at the current statement; neither
\* function has a handler, so it ends the public call
Raise(e) ==
    /\ result' = Raised(e)
    /\ ppc' = IF ppc = "none" THEN ppc ELSE "raised"
    /\ mpc' = IF top = "match_fits" THEN "raised" ELSE mpc

\* the caller invokes project_to_header directly
CallProject ==
    /\ top = "idle"
    /\ \E f \in FileNames, h \in Headers, kw \in KwargSets : Enter(f, h, kw)
    /\ top' = "project_to_header"
    /\ UNCHANGED << env, fs, margs, mpc, matchLocals, events, result >>

\* Select with use_montage ignored
SelectIgnoringPreference(montageOK, hcongridOK, use_montage) ==
    IF montageOK THEN "montage" ELSE IF hcongridOK THEN "hcongrid" ELSE "none"

\* lines 44 and 56: the branch of the if/elif for the probed imports
Select(montageOK, hcongridOK, use_montage) ==
    IF montageOK /\ use_montage THEN "montage"
    ELSE IF hcongridOK THEN "hcongrid"
    ELSE "none"

\* lines 32-44, 56: probe the imports and branch
P_Select ==
    /\ ppc = "select"
    /\ branch' = Select(env.montageOK, env.hcongridOK, pargs.use_montage)
    /\ ppc' = CASE branch' = "montage" -> "tempheader"
                [] branch' = "hcongrid" -> "hcongrid"
                [] OTHER -> "return"
    /\ UNCHANGED << env, fs, top, margs, mpc, matchLocals, pargs, image, temps,
                    pcalls, bcalls, events, result >>

\* lines 45-46: the header's temporary file is created and written
P_TempHeader ==
    /\ ppc = "tempheader"
    /\ temps' = temps \cup {"temp_headerfile"}
    /\ \E ok \in BOOLEAN :
         IF ok
         THEN ppc' = "reproject" /\ UNCHANGED << mpc, result >>
         ELSE Raise("toTxtFile failed")
    /\ UNCHANGED << env, fs, top, margs, matchLocals, pargs, image, branch,
                    pcalls, bcalls, events >>

\* lines 48-51: the output's temporary file is created and montage runs
P_Reproject ==
    /\ ppc = "reproject"
    /\ temps' = temps \cup {"outfile"}
    /\ bcalls' = Append(bcalls,
           [call |-> Len(pcalls), backend |-> "montage",
            input |-> pargs.fitsfile, header |-> pargs.header,
            exact_size |-> TRUE, silent_cleanup |-> pargs.quiet,
            kwargs |-> << >>])
    /\ \E ok \in BOOLEAN :
         IF ok
         THEN ppc' = "read" /\ UNCHANGED << mpc, result >>
         ELSE Raise("montage failed")
    /\ UNCHANGED << env, fs, top, margs, matchLocals, pargs, image, branch,
                    pcalls, events >>

\* line 52: the output is read back
P_Read ==
    /\ ppc = "read"
    /\ \E ok \in BOOLEAN :
         IF ok
         THEN /\ \E img \in OutImages : image' = Some(img)
              /\ ppc' = "close"
              /\ UNCHANGED << mpc, result >>
         ELSE Raise("getdata failed") /\ UNCHANGED image
    /\ UNCHANGED << env, fs, top, margs, matchLocals, pargs, branch, temps,
                    pcalls, bcalls, events >>

\* lines 54-55: both temporary files are closed, which deletes them
P_Close ==
    /\ ppc = "close"
    /\ temps' = temps \ {"outfile", "temp_headerfile"}
    /\ ppc' = "return"
    /\ UNCHANGED << env, fs, top, margs, mpc, matchLocals, pargs, image, branch,
                    pcalls, bcalls, events, result >>

\* lines 58-61: the file's data and header are read, then hcongrid runs on
\* the squeezed data and the flattened header
P_Hcongrid ==
    /\ ppc = "hcongrid"
    /\ \E outcome \in {"ok", "getdata failed", "hcongrid failed"} :
         /\ bcalls' = IF outcome = "getdata failed" THEN bcalls
                      ELSE Append(bcalls,
                             [call |-> Len(pcalls), backend |-> "hcongrid",
                              input |-> pargs.fitsfile, header |-> pargs.header,
                              exact_size |-> FALSE, silent_cleanup |-> FALSE,
                              kwargs |-> pargs.kwargs])
         /\ IF outcome = "ok"
            THEN /\ \E img \in OutImages : image' = Some(img)
                 /\ ppc' = "return"
                 /\ UNCHANGED << mpc, result >>
            ELSE Raise(outcome) /\ UNCHANGED image
    /\ UNCHANGED << env, fs, top, margs, matchLocals, pargs, branch, temps,
                    pcalls, events >>

\* ReturnImage with an unbound local read as None
ReturnNoneIfUnbound(img) ==
    IF IsNone(img) THEN Returned(<< >>, None) ELSE Returned(<< Get(img) >>, None)

\* line 63, `return image`: reading a local that was never bound raises
\* UnboundLocalError
ReturnImage(img) ==
    IF IsNone(img) THEN Raised("UnboundLocalError")
    ELSE Returned(<< Get(img) >>, None)

\* line 63: the call ends; its value lands where the caller assigns it
P_Return ==
    /\ ppc = "return"
    /\ LET r == ReturnImage(image) IN
         IF r.kind = "raise"
         THEN Raise(r.exc) /\ UNCHANGED << image1, image2_projected, events >>
         ELSE CASE top = "project_to_header" ->
                     /\ result' = r
                     /\ ppc' = "done"
                     /\ UNCHANGED << mpc, image1, image2_projected, events >>
                [] mpc = "in_project1" ->
                     /\ image1' = r.images
                     /\ events' = Append(events, "image1")
                     /\ mpc' = "project2"
                     /\ ppc' = "none"
                     /\ UNCHANGED << image2_projected, result >>
                [] OTHER ->
                     /\ image2_projected' = r.images
                     /\ events' = Append(events, "image2")
                     /\ mpc' = "check"
                     /\ ppc' = "none"
                     /\ UNCHANGED << image1, result >>
    /\ UNCHANGED << env, fs, top, margs, header, corr, pargs, image, branch,
                    temps, pcalls, bcalls >>

(***************************************************************************)
(* match_fits, lines 65-117.                                               *)
(***************************************************************************)
\* the caller invokes match_fits
CallMatch ==
    /\ top = "idle"
    /\ \E h \in {None} \cup { Some(x) : x \in Headers }, lv \in FlowLevels,
          rh \in BOOLEAN, kw \in KwargSets :
         margs' = [fitsfile1 |-> "file1.fits", fitsfile2 |-> "file2.fits",
                   header |-> h, sigma_cut |-> lv, return_header |-> rh,
                   kwargs |-> kw]
    /\ top' = "match_fits"
    /\ mpc' = "resolve"
    /\ UNCHANGED << env, fs, matchLocals, projLocals, pcalls, bcalls, events,
                    result >>

\* OwnHeader without the flattening
OwnHeaderUnflattened(f) == fs[f].header

\* line 91: flatten_header(pyfits.getheader(fitsfile1))
OwnHeader(f) == flatten_header(fs[f].header)

\* line 92: pyfits.getdata(fitsfile1).squeeze()
OwnData(f) == Squeeze(fs[f].data)

\* ProjectsFile1 with the projection skipped for file 1's own header
ProjectsFile1UnlessNative(h, f) == ~IsNone(h) /\ Get(h) # OwnHeader(f)

\* line 90, `if header is None`, negated: the else branch projects file 1
ProjectsFile1(h, f) == ~IsNone(h)

\* lines 90-92: no header was passed; file 1 supplies header and image1
M_ResolveOwn ==
    /\ mpc = "resolve"
    /\ ~ProjectsFile1(margs.header, margs.fitsfile1)
    /\ \E ok \in BOOLEAN :
         IF ok
         THEN /\ header' = Some(OwnHeader(margs.fitsfile1))
              /\ image1' = Some(OwnData(margs.fitsfile1))
              /\ events' = Append(events, "image1")
              /\ mpc' = "project2"
              /\ UNCHANGED << ppc, result >>
         ELSE Raise("IOError") /\ UNCHANGED << header, image1, events >>
    /\ UNCHANGED << env, fs, top, margs, image2_projected, corr, pargs, image,
                    branch, temps, pcalls, bcalls >>

\* lines 93-94: file 1 is projected to the header that was passed
M_Project1 ==
    /\ mpc = "resolve"
    /\ ProjectsFile1(margs.header, margs.fitsfile1)
    /\ header' = margs.header
    /\ Enter(margs.fitsfile1, Get(header'), margs.kwargs)
    /\ mpc' = "in_project1"
    /\ UNCHANGED << env, fs, top, margs, image1, image2_projected, corr,
                    events, result >>

\* line 97: file 2 is projected to the working header
M_Project2 ==
    /\ mpc = "project2"
    /\ Enter(margs.fitsfile2, Get(header), margs.kwargs)
    /\ mpc' = "in_project2"
    /\ UNCHANGED << env, fs, top, margs, matchLocals, events, result >>

\* ShapesDiffer comparing .size for .shape
SizesDiffer(a, b) == NPix(a.shape) # NPix(b.shape)

\* line 99: image1.shape != image2_projected.shape
ShapesDiffer(a, b) == a.shape # b.shape

\* lines 99-100: the shape check
M_ShapeCheck ==
    /\ mpc = "check"
    /\ events' = Append(events, "check")
    /\ IF ShapesDiffer(Get(image1), Get(image2_projected))
       THEN Raise("ValueError")
       ELSE mpc' = "cut" /\ UNCHANGED << ppc, result >>
    /\ UNCHANGED << env, fs, top, margs, matchLocals, pargs, image, branch,
                    temps, pcalls, bcalls >>

\* lines 102-112: the sigma cut, or none
M_SigmaCut ==
    /\ mpc = "cut"
    /\ corr' = SigmaCut(Get(image1), Get(image2_projected), margs.sigma_cut)
    /\ mpc' = "return"
    /\ UNCHANGED << env, fs, top, margs, header, image1, image2_projected,
                    projLocals, pcalls, bcalls, events, result >>

\* lines 114-117: the tuple returned
M_Return ==
    /\ mpc = "return"
    /\ result' = Returned(corr, IF margs.return_header THEN header ELSE None)
    /\ mpc' = "done"
    /\ UNCHANGED << env, fs, top, margs, matchLocals, projLocals, pcalls,
                    bcalls, events >>

Next ==
    \/ CallProject
    \/ CallMatch
    \/ P_Select
    \/ P_TempHeader
    \/ P_Reproject
    \/ P_Read
    \/ P_Close
    \/ P_Hcongrid
    \/ P_Return
    \/ M_ResolveOwn
    \/ M_Project1
    \/ M_Project2
    \/ M_ShapeCheck
    \/ M_SigmaCut
    \/ M_Return

Spec == Init /\ [][Next]_vars

(***************************************************************************)
(* The sigma cut on its own: match_fits at line 102, after the shape check *)
(* passed, for every pair of same-shaped arrays over a wider range of      *)
(* element values (negative, zero, positive, NaN) and levels.              *)
(***************************************************************************)
CutPix == {NaN} \cup { Num(n) : n \in (0 - 1)..MaxPix }
CutShapes == {<<1, 2>>, <<3>>}
CutLevels == (0 - MaxLevel)..MaxLevel

InitCut ==
    /\ env = [montageOK |-> FALSE, hcongridOK |-> TRUE]
    /\ fs = [f \in FileNames |->
               [header |-> {"CTYPE"}, data |-> [shape |-> <<2>>, pix |-> <<Num(1), Num(1)>>]]]
    /\ top = "match_fits"
    /\ \E lv \in CutLevels :
         margs = [fitsfile1 |-> "file1.fits", fitsfile2 |-> "file2.fits",
                  header |-> Some({"CTYPE"}), sigma_cut |-> lv,
                  return_header |-> TRUE, kwargs |-> << >>]
    /\ mpc = "cut"
    /\ header = Some({"CTYPE"})
    /\ \E sh \in CutShapes :
         /\ image1 \in { Some(a) : a \in ImagesOf(sh, CutPix) }
         /\ image2_projected \in { Some(a) : a \in ImagesOf(sh, CutPix) }
    /\ corr = << >>
    /\ pargs = Bind("file2.fits", {"CTYPE"}, << >>)
    /\ ppc = "none"
    /\ image = image2_projected
    /\ branch = "hcongrid"
    /\ temps = {}
    /\ pcalls = << [fitsfile |-> "file1.fits", header |-> {"CTYPE"}, kwargs |-> << >>],
                   [fitsfile |-> "file2.fits", header |-> {"CTYPE"}, kwargs |-> << >>] >>
    /\ bcalls = [k \in 1..2 |->
                   [call |-> k, backend |-> "hcongrid", input |-> pcalls[k].fitsfile,
                    header |-> {"CTYPE"}, exact_size |-> FALSE,
                    silent_cleanup |-> FALSE, kwargs |-> << >>]]
    /\ events = << "image1", "image2", "check" >>
    /\ result = NoResult

NextCut ==
    \/ M_SigmaCut
    \/ M_Return

SpecCut == InitCut /\ [][NextCut]_vars

(***************************************************************************)
(* Properties of match_fits and project_to_header (checked under Spec).    *)
(***************************************************************************)
MatchEnded == top = "match_fits" /\ mpc \in {"done", "raised"}
ProjectEnded == ppc \in {"done", "raised"} \/ (ppc = "none" /\ pcalls # << >>)
PastCheck == top = "match_fits" /\ mpc \in {"cut", "return", "done"}
Checked == \E i \in DOMAIN events : events[i] = "check"
NoBackend == ~env.montageOK /\ ~env.hcongridOK

\* C1: once both projections have completed, match_fits raises ValueError
\* exactly when image1.shape differs from the projected image 2's shape; it
\* gets past line 100 only with equal shapes, and whatever it returns (cut or
\* not, with or without the header) is two arrays of one shape.
C1_ShapeMismatchRaises ==
    /\ (top = "match_fits" /\ Checked) =>
          /\ ~IsNone(image1) /\ ~IsNone(image2_projected)
          /\ (Get(image1).shape # Get(image2_projected).shape)
                <=> (mpc = "raised" /\ result = Raised("ValueError"))
          /\ (Get(image1).shape = Get(image2_projected).shape) <=> PastCheck
    /\ (top = "match_fits" /\ result.kind = "raise" /\ result.exc = "ValueError")
          => Checked
    /\ (top = "match_fits" /\ result.kind = "return") =>
          /\ Checked
          /\ Len(result.images) = 2
          /\ result.images[1].shape = result.images[2].shape

C1_Witness ==
    /\ top = "match_fits"
    /\ result = Raised("ValueError")
    /\ Get(image1).shape = <<2>>
    /\ Get(image2_projected).shape = <<1, 2>>

\* C2 as stated: with neither backend importable, a project_to_header call
\* ends by returning (a None-like value), not by raising.
C2_ReturnsNoneLike ==
    (top = "project_to_header" /\ NoBackend /\ ProjectEnded)
        => result.kind = "return"

\* C2, amended: with neither backend importable, a project_to_header call
\* invokes no backend, opens no temporary file, binds no image and never
\* returns: it ends at line 63 with UnboundLocalError (and takes an enclosing
\* match_fits call with it, at its first projection).
C2_NoBackendRaisesUnbound ==
    (NoBackend /\ pcalls # << >>) =>
        /\ Len(pcalls) = 1
        /\ bcalls = << >>
        /\ temps = {}
        /\ image = None
        /\ ppc \in {"select", "return", "raised"}
        /\ result.kind # "return"
        /\ ppc = "raised" => result = Raised("UnboundLocalError")
        /\ ProjectEnded => ppc = "raised"

C2_Witness ==
    /\ top = "project_to_header"
    /\ NoBackend
    /\ ppc = "raised"
    /\ branch = "none"
    /\ result = Raised("UnboundLocalError")

\* C3 as stated: whenever no project_to_header call is running (none was
\* made, or the last one returned or raised), no temporary file is open.
C3_TempFilesReleased ==
    ppc \in {"none", "done", "raised"} => temps = {}

\* C4: with header omitted, once image 1 is resolved the working header is
\* the flattened header of file 1 and image1 is file 1's squeezed data, file 1
\* was never projected, and a requested header is returned as that flattened
\* header; a supplied header is the working header and is returned unchanged;
\* no header is returned unless requested.
C4_HeaderResolution ==
    top = "match_fits" =>
        /\ (IsNone(margs.header) /\ mpc \notin {"resolve", "raised"}) =>
              /\ header = Some(fs[margs.fitsfile1].header \ NonStandard)
              /\ image1 = Some([shape |-> SelectSeq(fs[margs.fitsfile1].data.shape,
                                                    LAMBDA d : d > 1),
                                pix |-> fs[margs.fitsfile1].data.pix])
              /\ \A k \in DOMAIN pcalls : pcalls[k].fitsfile # margs.fitsfile1
        /\ (~IsNone(margs.header) /\ mpc # "resolve") => header = margs.header
        /\ result.kind = "return" =>
              result.header = IF margs.return_header THEN header ELSE None

C4_Witness ==
    /\ top = "match_fits"
    /\ IsNone(margs.header)
    /\ margs.return_header
    /\ result.kind = "return"
    /\ "LEGACY" \in fs[margs.fitsfile1].header
    /\ result.header = Some({"CTYPE"})
    /\ fs[margs.fitsfile1].data.shape = <<1, 2>>
    /\ Get(image1).shape = <<2>>

\* the use_montage and quiet a logged project_to_header call runs with, and
\* the keyword arguments left over for its **kwargs
UseMontageOf(c) ==
    IF "use_montage" \in DOMAIN c.kwargs THEN c.kwargs["use_montage"] ELSE TRUE
QuietOf(c) == IF "quiet" \in DOMAIN c.kwargs THEN c.kwargs["quiet"] ELSE TRUE
ExtraOf(c) == [k \in DOMAIN c.kwargs \ {"use_montage", "quiet"} |-> c.kwargs[k]]
BackendsOf(k) == { i \in DOMAIN bcalls : bcalls[i].call = k }
\* call k of the log has returned to its caller
ReturnedCall(k) == k < Len(pcalls) \/ ppc \in {"none", "done"}
\* call k of the log has ended, by a return or by an exception
EndedCall(k) == k < Len(pcalls) \/ ppc \in {"none", "done", "raised"}

\* C9: a project_to_header call invokes at most one backend: montage only
\* if montage is importable and use_montage is true, hcongrid only if that
\* is not so and hcongrid is importable (so never montage with use_montage
\* false, whatever hcongrid's availability); a call that returns has invoked
\* exactly the backend so chosen, and a call with neither choice open has
\* invoked none.  montage gets exact_size=True,
\* silent_cleanup=quiet and none of the extra keyword arguments; hcongrid
\* gets exactly the extra keyword arguments.
C9_BackendSelection ==
    \A k \in DOMAIN pcalls :
        LET c  == pcalls[k]
            pm == env.montageOK /\ UseMontageOf(c)
            ph == ~pm /\ env.hcongridOK
        IN  /\ Cardinality(BackendsOf(k)) <= 1
            /\ \A i \in BackendsOf(k) :
                 /\ bcalls[i].input = c.fitsfile
                 /\ bcalls[i].header = c.header
                 /\ bcalls[i].backend = "montage" =>
                      /\ pm
                      /\ bcalls[i].exact_size
                      /\ bcalls[i].silent_cleanup = QuietOf(c)
                      /\ bcalls[i].kwargs = << >>
                 /\ bcalls[i].backend = "hcongrid" =>
                      /\ ph
                      /\ bcalls[i].kwargs = ExtraOf(c)
            /\ ReturnedCall(k) =>
                 /\ pm <=> \E i \in BackendsOf(k) : bcalls[i].backend = "montage"
                 /\ ph <=> \E i \in BackendsOf(k) : bcalls[i].backend = "hcongrid"
            /\ (EndedCall(k) /\ ~pm /\ ~ph) => BackendsOf(k) = {}

C9_Witness ==
    /\ top = "project_to_header"
    /\ ppc = "done"
    /\ env.montageOK /\ env.hcongridOK
    /\ "preserve_bad_pixels" \in DOMAIN pcalls[1].kwargs
    /\ "quiet" \in DOMAIN pcalls[1].kwargs
    /\ "use_montage" \notin DOMAIN pcalls[1].kwargs
    /\ bcalls[1].backend = "montage"
    /\ ~bcalls[1].silent_cleanup

ProjectionOf(f) == [fitsfile |-> f, header |-> Get(header), kwargs |-> margs.kwargs]

\* C10 as stated: in every match_fits call, however it ends, file 2 has been
\* projected exactly once, and project_to_header has been invoked twice
\* (file 1, then file 2) if a header was supplied and once (file 2) if not.
C10_AlwaysProjectsFile2 ==
    MatchEnded =>
        /\ Cardinality({ k \in DOMAIN pcalls : pcalls[k].fitsfile = margs.fitsfile2 }) = 1
        /\ Len(pcalls) = IF IsNone(margs.header) THEN 1 ELSE 2

\* C10, amended: a match_fits call never invokes project_to_header more than
\* twice nor projects file 2 more than once, always with the working header
\* and the caller's keyword arguments, and file 2 only after image 1 is
\* resolved and before the shape check.  A call that reaches the shape check
\* has made exactly the invocations: file 1 then file 2 if a header was
\* supplied, file 2 alone if not.  (A call in which an earlier step raises
\* stops there, with zero or one invocation made.)
C10_ProjectionOrder ==
    top = "match_fits" =>
        /\ Len(pcalls) <= 2
        /\ \A k \in DOMAIN pcalls :
             /\ pcalls[k] = ProjectionOf(pcalls[k].fitsfile)
             /\ pcalls[k].fitsfile = margs.fitsfile2 =>
                  /\ k = Len(pcalls)
                  /\ k = IF IsNone(margs.header) THEN 1 ELSE 2
                  /\ events # << >> /\ events[1] = "image1"
                  /\ ~IsNone(image1)
             /\ pcalls[k].fitsfile = margs.fitsfile1 =>
                  k = 1 /\ ~IsNone(margs.header)
        /\ Checked =>
             /\ events = << "image1", "image2", "check" >>
             /\ pcalls = IF IsNone(margs.header)
                         THEN << ProjectionOf(margs.fitsfile2) >>
                         ELSE << ProjectionOf(margs.fitsfile1),
                                 ProjectionOf(margs.fitsfile2) >>
        /\ mpc = "done" => Checked

C10_Witness ==
    /\ top = "match_fits"
    /\ mpc = "done"
    /\ ~IsNone(margs.header)
    /\ Get(margs.header) = fs[margs.fitsfile1].header
    /\ Len(pcalls) = 2
    /\ pcalls[1].fitsfile = "file1.fits"
    /\ pcalls[2].fitsfile = "file2.fits"
    /\ DOMAIN margs.kwargs = KwNames

(***************************************************************************)
(* Properties of the sigma cut (checked under SpecCut).  The arrays        *)
(* image1 and image2_projected are the pre-cut images: nothing assigns     *)
(* them after line 97.                                                     *)
(***************************************************************************)
Pre1 == Get(image1)
Pre2 == Get(image2_projected)
Level == margs.sigma_cut
ReturnedPair == top = "match_fits" /\ result.kind = "return"
Sgn(n) == IF n > 0 THEN 1 ELSE IF n < 0 THEN 0 - 1 ELSE 0

\* the sign of  x - level * std(a)  for a number x and a NaN-free array a of
\* n elements with sum S and sum of squares Q, where std^2 = (n*Q - S^2)/n^2:
\* the signs of n*x and of level*sqrt(n*Q - S^2) decide, or else their squares
CmpThreshold(x, a, level) ==
    LET n  == Len(a.pix)
        S  == SumSeq([i \in DOMAIN a.pix |-> a.pix[i].v])
        Q  == SumSeq([i \in DOMAIN a.pix |-> a.pix[i].v * a.pix[i].v])
        V  == n * Q - S * S
        sx == Sgn(x)
        st == IF V = 0 THEN 0 ELSE Sgn(level)
    IN  IF sx # st THEN Sgn(sx - st)
        ELSE sx * Sgn(n * n * x * x - level * level * V)

\* the thresholded images, the positions valid in both, and whether the cut
\* was kept
Cut1 == Threshold(Pre1, Level)
Cut2 == Threshold(Pre2, Level)
Valid == { i \in DOMAIN Cut1.pix : ~IsNaN(Cut1.pix[i]) /\ ~IsNaN(Cut2.pix[i]) }
Products == [i \in Valid |-> Cut1.pix[i].v * Cut2.pix[i].v]
CutKept == ReturnedPair /\ Level # 0 /\ SumOver(Products, Valid) # 0

\* C5: when sigma_cut is truthy and the products of the thresholded images
\* over the positions valid in both sum to zero, the images returned are the
\* pre-cut images.
C5_DegenerateCutDiscarded ==
    (ReturnedPair /\ Level # 0 /\ SumOver(Products, Valid) = 0)
        => result.images = << Pre1, Pre2 >>

C5_Witness ==
    /\ ReturnedPair
    /\ Level = 1
    /\ SumOver(Products, Valid) = 0
    /\ Cut1 # Pre1
    /\ \E i \in Valid : Cut1.pix[i].v # 0
    /\ \E i \in Valid : Cut2.pix[i].v # 0
    /\ result.images = << Pre1, Pre2 >>

\* C6: when sigma_cut is falsy the images returned are the pre-cut images.
C6_FalsyLevelNoCut ==
    (ReturnedPair /\ Level = 0) => result.images = << Pre1, Pre2 >>

C6_Witness ==
    /\ ReturnedPair
    /\ Level = 0
    /\ result.images = << Pre1, Pre2 >>
    /\ \E i \in DOMAIN Pre1.pix : ~IsNaN(Pre1.pix[i]) /\ Pre1.pix[i].v < 0
    /\ \E i \in DOMAIN Pre2.pix : ~IsNaN(Pre2.pix[i]) /\ Pre2.pix[i].v > 0

\* C7 as stated, for the positive levels the interface documents: when the
\* cut is kept, a pixel of a returned image is zero if its pre-cut value is
\* below level x (the std of its own image), and is its pre-cut value if not.
C7_ZeroedWhenBelow ==
    (CutKept /\ Level > 0) =>
        \A j \in 1..2 :
            LET pre == << Pre1, Pre2 >>[j]
                out == result.images[j]
            IN  \A i \in DOMAIN pre.pix :
                    out.pix[i] = IF CmpThreshold(pre.pix[i].v, pre, Level) < 0
                                 THEN Num(0) ELSE pre.pix[i]

\* C7, amended: when the cut is kept, neither image holds a NaN, and a pixel
\* of a returned image is its pre-cut value if that value is above level x
\* (the std of its own image), and zero if it is not above it (below it or
\* equal to it); the other image plays no part.
C7_ZeroedUnlessAbove ==
    CutKept =>
        \A j \in 1..2 :
            LET pre == << Pre1, Pre2 >>[j]
                out == result.images[j]
            IN  /\ out.shape = pre.shape
                /\ \A i \in DOMAIN pre.pix :
                     /\ ~IsNaN(pre.pix[i])
                     /\ out.pix[i] = IF CmpThreshold(pre.pix[i].v, pre, Level) > 0
                                     THEN pre.pix[i] ELSE Num(0)

C7_Witness ==
    /\ CutKept
    /\ Level > 0
    /\ \E i \in DOMAIN Pre1.pix :
         /\ Pre1.pix[i].v # 0
         /\ CmpThreshold(Pre1.pix[i].v, Pre1, Level) = 0
         /\ result.images[1].pix[i] = Num(0)
    /\ \E i \in DOMAIN Pre1.pix : result.images[1].pix[i] = Pre1.pix[i] /\ Pre1.pix[i].v # 0

\* C8: for a positive level, if some position valid in both thresholded
\* images has a nonzero product, the cut is kept: the thresholded images are
\* returned.
C8_PositiveLevelKeepsOverlap ==
    (ReturnedPair /\ Level > 0 /\ \E i \in Valid : Products[i] # 0)
        => result.images = << Cut1, Cut2 >>

C8_Witness ==
    /\ ReturnedPair
    /\ Level > 0
    /\ Cardinality({ i \in Valid : Products[i] # 0 }) = 1
    /\ \E i \in Valid : Products[i] = 0
    /\ result.images = << Cut1, Cut2 >>
    /\ result.images # << Pre1, Pre2 >>

====
